---- MODULE Spec2Model ----
(***************************************************************************)
(* A model of src/email_reader.py: the two normalizers parse_eml and       *)
(* parse_msg, the filename sanitizer, and the handlers of EmailReaderApp   *)
(* (open_email, save_body_as_txt, open_html_in_browser,                    *)
(* save_selected_attachment, extract_attachments).                         *)
(*                                                                         *)
(* Conventions                                                             *)
(*   - a Python str / bytes value that the code inspects character by      *)
(*     character (a filename) is a sequence of one-character strings;      *)
(*   - an optional value (None or v) is the sequence <<>> or <<v>>;        *)
(*   - a call that may raise returns a record with a field "raised".       *)
(***************************************************************************)
EXTENDS Integers, Sequences, FiniteSets, TLC

VARIABLES
    arg,            \* input of the pure function under check
    ret,            \* its result (<<>> until it has been applied)
    extract_msg,    \* module global: TRUE iff "import extract_msg" succeeded
    BeautifulSoup,  \* module global: TRUE iff "from bs4 import BeautifulSoup" succeeded
    current_path,   \* EmailReaderApp.current_path: None, or the extension of the path
    current_meta,   \* EmailReaderApp.current_meta
    attach_listbox, \* number of rows of EmailReaderApp.attach_listbox
    log,            \* what the last handler run did, in order
    escaped         \* TRUE iff the last handler run ended by an uncaught exception

vars == <<arg, ret, extract_msg, BeautifulSoup, current_path,
          current_meta, attach_listbox, log, escaped>>

-----------------------------------------------------------------------------
(* Bounds *)

MaxNameLen == 3
MaxParts == 2
MaxAtt == 2

-----------------------------------------------------------------------------
(* Python values *)

None == <<>>
Some(v) == <<v>>
Get(o) == o[1]

\* the sequences over S of length at most n
SeqsUpTo(S, n) == UNION {[1..k -> S] : k \in 0..n}

STR_attachment == <<"a", "t", "t", "a", "c", "h", "m", "e", "n", "t">>

-----------------------------------------------------------------------------
(* _sanitize_filename *)

\* the characters of the literal "\\/:*?\"<>|"
IllegalChars == {"\\", "/", ":", "*", "?", "\"", "<", ">", "|"}

\* the characters str.strip() removes, as far as the alphabet has them
Whitespace == {" ", "\t", "\n"}

Alphabet == {"a", "b", " ", "\t"} \cup IllegalChars

\* the names of at most n characters
Names(n) == SeqsUpTo(Alphabet, n)

RECURSIVE lstrip(_)
lstrip(s) ==
    IF s = <<>> THEN <<>>
    ELSE IF Head(s) \in Whitespace THEN lstrip(Tail(s)) ELSE s

RECURSIVE rstrip(_)
rstrip(s) ==
    IF s = <<>> THEN <<>>
    ELSE IF s[Len(s)] \in Whitespace THEN rstrip(SubSeq(s, 1, Len(s) - 1)) ELSE s

strip(s) == rstrip(lstrip(s))

\* "".join(c for c in name if c not in "\\/:*?\"<>|")
RemoveIllegal(name) == SelectSeq(name, LAMBDA c : c \notin IllegalChars)

\* a sanitizer that forgets the "or 'attachment'" fallback
sanitize_filename_nofallback(name) == strip(RemoveIllegal(name))

_sanitize_filename(name) ==
    LET kept == strip(RemoveIllegal(name))
    IN IF kept = <<>> THEN STR_attachment ELSE kept

-----------------------------------------------------------------------------
(* parse_eml *)

\* A MIME part as the walk sees it:
\*   cdis     part.get_content_disposition(): None, "inline" or "attachment"
\*   ctype    part.get_content_type()
\*   filename part.get_filename(): None or a string (possibly empty)
\*   payload  the transfer-decoded bytes; UNDECODABLE stands for bytes whose
\*            declared charset part.get_content() cannot decode (it raises)
UNDECODABLE == "<80>"
REPLACED == "<FFFD>"

Raise(e) == [raised |-> TRUE, exc |-> e]

\* part.get_content()
get_content(part) ==
    IF part.payload = UNDECODABLE THEN Raise("LookupError")
    ELSE [raised |-> FALSE, value |-> part.payload]

\* part.get_payload(decode=True).decode(errors="replace")
decode_replace(part) ==
    IF part.payload = UNDECODABLE THEN REPLACED ELSE part.payload

\* Python truthiness of an optional filename: "if filename", "filename or ..."
Truthy(o) == o # None /\ Get(o) # <<>>

\* a classification that looks at the disposition only
is_attachment_disposition_only(cdis, filename) == cdis = Some("attachment")

\* line 52: cdis == "attachment" or filename
is_attachment(cdis, filename) == cdis = Some("attachment") \/ Truthy(filename)

\* lines 54-58: the appended attachment record
eml_attachment(part) ==
    [filename |-> IF Truthy(part.filename) THEN Get(part.filename) ELSE STR_attachment,
     content_type |-> part.ctype,
     payload |-> part.payload]

\* lines 62-65 and 67-70: get_content() with the replace-decoding fallback
body_of(part) ==
    LET c == get_content(part)
    IN IF c.raised THEN decode_replace(part) ELSE c.value

\* one iteration of "for part in msg.walk()" (lines 48-70) on the
\* accumulator [body_text, body_html, attachments]
walk_step(acc, part) ==
    IF is_attachment(part.cdis, part.filename)
    THEN [acc EXCEPT !.attachments = Append(@, eml_attachment(part))]
    ELSE IF part.ctype = "text/plain" /\ acc.body_text = ""
    THEN [acc EXCEPT !.body_text = body_of(part)]
    ELSE IF part.ctype = "text/html" /\ acc.body_html = ""
    THEN [acc EXCEPT !.body_html = body_of(part)]
    ELSE acc

RECURSIVE walk_loop(_, _)
walk_loop(acc, parts) ==
    IF parts = <<>> THEN acc
    ELSE walk_loop(walk_step(acc, Head(parts)), Tail(parts))

\* the multipart container itself, which msg.walk() yields first
RootPart ==
    [cdis |-> None, ctype |-> "multipart/mixed", filename |-> None, payload |-> ""]

\* msg.walk(): the container, then its parts in document order
walk(msg) == <<RootPart>> \o msg.parts

\* lines 42-44
EmptyAcc == [body_text |-> "", body_html |-> "", attachments |-> <<>>]

Parsed(headers, acc) ==
    [raised |-> FALSE, headers |-> headers, body_text |-> acc.body_text,
     body_html |-> acc.body_html, attachments |-> acc.attachments]

\* parse_eml(path) on the file at path: file.readable is whether open(path, "rb")
\* succeeds, file.msg is the message BytesParser returns. A message that is not
\* multipart is its own single part, msg.parts[1].
parse_eml(file) ==
    IF ~file.readable THEN Raise("OSError")
    ELSE LET msg == file.msg IN
         IF msg.multipart
         THEN Parsed(msg.headers, walk_loop(EmptyAcc, walk(msg)))
         ELSE LET self == msg.parts[1]
                  c == get_content(self)
              IN IF self.ctype = "text/plain"
                 THEN IF c.raised THEN c
                      ELSE Parsed(msg.headers, [EmptyAcc EXCEPT !.body_text = c.value])
                 ELSE IF self.ctype = "text/html"
                 THEN IF c.raised THEN c
                      ELSE Parsed(msg.headers, [EmptyAcc EXCEPT !.body_html = c.value])
                 ELSE Parsed(msg.headers, EmptyAcc)

-----------------------------------------------------------------------------
(* State of a freshly constructed EmailReaderApp (__init__) *)

EmptyMeta ==
    [headers |-> "", body_text |-> "", body_html |-> "", attachments |-> <<>>,
     type |-> "none"]

AppIdle ==
    /\ extract_msg = FALSE
    /\ BeautifulSoup = FALSE
    /\ current_path = None
    /\ current_meta = EmptyMeta
    /\ attach_listbox = 0
    /\ log = <<>>
    /\ escaped = FALSE

appvars == <<extract_msg, BeautifulSoup, current_path, current_meta,
             attach_listbox, log, escaped>>

-----------------------------------------------------------------------------
(* parse_msg *)

\* line 103: longFilename, else filename, else "attachment"
msg_attachment_name(att) ==
    IF Truthy(att.longFilename) THEN Get(att.longFilename)
    ELSE IF Truthy(att.filename) THEN Get(att.filename)
    ELSE STR_attachment

\* a parse_msg that does not look whether the decoder was imported
parse_msg_unguarded(file) ==
    IF ~file.readable THEN Raise("DecoderError")
    ELSE [raised |-> FALSE, headers |-> file.headers, body_text |-> file.body,
          body_html |-> file.htmlBody,
          attachments |-> [i \in 1..Len(file.attachments) |->
                             [filename |-> msg_attachment_name(file.attachments[i]),
                              obj |-> file.attachments[i]]]]

\* parse_msg(path) on the file at path: file.readable is whether
\* extract_msg.Message(path) succeeds, the other fields are the attributes of
\* the Message it returns.
parse_msg(file) ==
    IF ~extract_msg THEN Raise("RuntimeError")
    ELSE IF ~file.readable THEN Raise("DecoderError")
    ELSE [raised |-> FALSE, headers |-> file.headers, body_text |-> file.body,
          body_html |-> file.htmlBody,
          attachments |-> [i \in 1..Len(file.attachments) |->
                             [filename |-> msg_attachment_name(file.attachments[i]),
                              obj |-> file.attachments[i]]]]

-----------------------------------------------------------------------------
(* What a handler run does, as a log of events *)

\* kind: "handler" (entry), "showinfo" / "showwarning" / "showerror"
\*       (messagebox), "traceback" (traceback.print_exc), "call", "write",
\*       "status" (set_status)
\* what: the handler, the dialog title, the callee, or the buffer written
\* idx:  the 1-based position of the attachment concerned, 0 when none
\* path: the file concerned, None when none
\* res:  "ok" or the exception raised, "" when not applicable
\* n:    the count shown, 0 when none
Ev(kind, what, idx, path, res, n) ==
    [kind |-> kind, what |-> what, idx |-> idx, path |-> path, res |-> res, n |-> n]

Enter(handler) == Ev("handler", handler, 0, None, "", 0)
Box(kind, title, idx) == Ev(kind, title, idx, None, "", 0)
Traceback(idx) == Ev("traceback", "", idx, None, "", 0)
Call(what, idx, path, res) == Ev("call", what, idx, path, res, 0)
Write(what, idx, path, res) == Ev("write", what, idx, Some(path), res, 0)

\* os.path.join(dest, name)
Join(dest, name) == <<dest, name>>

\* outcome of open(path, "w"/"wb") followed by write: it works or raises OSError
IoOutcomes == {"ok", "OSError"}

\* outcome of obj.save(customPath=full)
SaveKwOutcomes == {"ok", "TypeError", "Exception"}

\* outcome of obj.save(full)
SavePosOutcomes == {"ok", "Exception"}

\* getattr(obj, "data", None) or getattr(obj, "payload", None)
data_or_payload(obj) ==
    IF Truthy(obj.data) THEN [what |-> "data", buf |-> obj.data]
    ELSE [what |-> "payload", buf |-> obj.payload]

\* the result of one attempt to save one attachment: the events, whether an
\* exception is propagating, and whether the save counted (saved += 1)
Item(events, raised, saved) == [events |-> events, raised |-> raised, saved |-> saved]

-----------------------------------------------------------------------------
(* extract_attachments *)

\* f"attachment_{saved}"
Digits == <<"0", "1", "2", "3", "4", "5", "6", "7", "8", "9">>
attachment_n(saved) == STR_attachment \o <<"_", Digits[saved + 1]>>

\* lines 303-309: one .eml attachment of the batch
extract_item_eml(a, idx, saved, dest) ==
    LET fname == IF a.filename # <<>> THEN a.filename ELSE attachment_n(saved)
        full == Join(dest, _sanitize_filename(fname))
    IN {IF io = "ok"
        THEN Item(<<Write("payload", idx, full, "ok")>>, FALSE, 1)
        ELSE Item(<<Write("payload", idx, full, io)>>, TRUE, 0) : io \in IoOutcomes}

\* lines 322-327 and 378-383: after both save calls failed, write the raw
\* buffer or re-raise
fallback_after_save(obj, idx, full, before) ==
    LET d == data_or_payload(obj) IN
    IF Truthy(d.buf)
    THEN {IF io = "ok"
          THEN Item(before \o <<Write(d.what, idx, full, "ok")>>, FALSE, 1)
          ELSE Item(before \o <<Write(d.what, idx, full, io)>>, TRUE, 0) : io \in IoOutcomes}
    ELSE {Item(before, TRUE, 0)}

\* a chain that retries with save(full) after any failure of the first call
save_chain_retry_always(obj, idx, full) ==
    UNION {
        IF kw = "ok"
        THEN {Item(<<Call("save(customPath)", idx, Some(full), kw)>>, FALSE, 1)}
        ELSE UNION {
            IF pos = "ok"
            THEN {Item(<<Call("save(customPath)", idx, Some(full), kw),
                         Call("save(path)", idx, Some(full), pos)>>, FALSE, 1)}
            ELSE fallback_after_save(obj, idx, full,
                     <<Call("save(customPath)", idx, Some(full), kw),
                       Call("save(path)", idx, Some(full), pos)>>)
            : pos \in SavePosOutcomes}
        : kw \in SaveKwOutcomes}

\* lines 316-328 and 372-383: obj.save(customPath=full), on TypeError
\* obj.save(full), on any failure of that the raw buffer
save_chain(obj, idx, full) ==
    UNION {
        IF kw = "ok"
        THEN {Item(<<Call("save(customPath)", idx, Some(full), kw)>>, FALSE, 1)}
        ELSE IF kw # "TypeError"
        THEN {Item(<<Call("save(customPath)", idx, Some(full), kw)>>, TRUE, 0)}
        ELSE UNION {
            IF pos = "ok"
            THEN {Item(<<Call("save(customPath)", idx, Some(full), kw),
                         Call("save(path)", idx, Some(full), pos)>>, FALSE, 1)}
            ELSE fallback_after_save(obj, idx, full,
                     <<Call("save(customPath)", idx, Some(full), kw),
                       Call("save(path)", idx, Some(full), pos)>>)
            : pos \in SavePosOutcomes}
        : kw \in SaveKwOutcomes}

\* lines 311-336: one .msg attachment of the batch (an attribute the object
\* lacks reads as None)
extract_item_msg(a, idx, saved, dest) ==
    LET obj == a.obj
        fname == IF a.filename # <<>> THEN a.filename
                 ELSE IF Truthy(obj.filename) THEN Get(obj.filename)
                 ELSE STR_attachment
        full == Join(dest, _sanitize_filename(fname))
        d == data_or_payload(obj)
    IN IF obj.has_save THEN save_chain(obj, idx, full)
       ELSE IF Truthy(d.buf)
       THEN {IF io = "ok"
             THEN Item(<<Write(d.what, idx, full, "ok")>>, FALSE, 1)
             ELSE Item(<<Write(d.what, idx, full, io)>>, TRUE, 0) : io \in IoOutcomes}
       ELSE {Item(<<Box("showwarning", "Warning", idx)>>, FALSE, 0)}

\* lines 338-343: a record of neither type, written under its unsanitized name
extract_item_other(a, idx, saved, dest) ==
    LET full == Join(dest, a.filename)
    IN {IF io = "ok"
        THEN Item(<<Write("payload", idx, full, "ok")>>, FALSE, 1)
        ELSE Item(<<Write("payload", idx, full, io)>>, TRUE, 0) : io \in IoOutcomes}

\* lines 302, 310, 337: the branch on current_meta["type"]
extract_item(type, a, idx, saved, dest) ==
    IF type = "eml" THEN extract_item_eml(a, idx, saved, dest)
    ELSE IF type = "msg" THEN extract_item_msg(a, idx, saved, dest)
    ELSE extract_item_other(a, idx, saved, dest)

\* lines 344-346: the per-item except clause
item_caught(it, idx) ==
    IF it.raised
    THEN it.events \o <<Traceback(idx), Box("showwarning", "Save error", idx)>>
    ELSE it.events

\* a loop whose try statement encloses the whole for loop: the first failure
\* ends the batch
RECURSIVE extract_loop_abort_on_failure(_, _, _, _, _)
extract_loop_abort_on_failure(type, atts, idx, saved, dest) ==
    IF idx > Len(atts) THEN {[events |-> <<>>, saved |-> saved]}
    ELSE UNION {
        IF it.raised
        THEN {[events |-> item_caught(it, idx), saved |-> saved]}
        ELSE {[events |-> it.events \o r.events, saved |-> r.saved] :
                r \in extract_loop_abort_on_failure(type, atts, idx + 1,
                                                    saved + it.saved, dest)}
        : it \in extract_item(type, atts[idx], idx, saved, dest)}

\* lines 299-346: "saved = 0; for a in attachments: try ... except ..." from
\* the attachment at position idx on; the set of the runs the outcomes of the
\* calls allow, each with its events and the final value of saved
RECURSIVE extract_loop(_, _, _, _, _)
extract_loop(type, atts, idx, saved, dest) ==
    IF idx > Len(atts) THEN {[events |-> <<>>, saved |-> saved]}
    ELSE UNION {
        {[events |-> item_caught(it, idx) \o r.events, saved |-> r.saved] :
            r \in extract_loop(type, atts, idx + 1, saved + it.saved, dest)}
        : it \in extract_item(type, atts[idx], idx, saved, dest)}

\* the folder filedialog.askdirectory returns: "" on cancel
DestFolders == {None, Some("d")}

extract_attachments ==
    /\ ret = None
    /\ LET attachments == current_meta.attachments IN
       \/ /\ attachments = <<>>
          /\ log' = <<Enter("extract_attachments"),
                      Box("showinfo", "No attachments", 0)>>
       \/ /\ attachments # <<>>
          /\ \E dest \in DestFolders :
                IF dest = None
                THEN log' = <<Enter("extract_attachments")>>
                ELSE \E r \in extract_loop(current_meta.type, attachments, 1, 0, Get(dest)) :
                        log' = <<Enter("extract_attachments")>> \o r.events
                               \o <<Ev("showinfo", "Done", 0, None, "", r.saved),
                                    Ev("status", "Saved", 0, None, "", r.saved)>>
    /\ escaped' = FALSE
    /\ UNCHANGED <<arg, ret, extract_msg, BeautifulSoup, current_path,
                   current_meta, attach_listbox>>

-----------------------------------------------------------------------------
(* save_selected_attachment *)

\* the file filedialog.asksaveasfilename returns: "" on cancel
UserFile == Join("u", <<"o">>)
SaveAsFiles == {None, Some(UserFile)}

\* lines 365-397: the body of the try statement for attachment a
save_selected_item(type, a, idx, dest_file) ==
    IF type = "eml"
    THEN {IF io = "ok"
          THEN Item(<<Write("payload", idx, dest_file, "ok")>>, FALSE, 1)
          ELSE Item(<<Write("payload", idx, dest_file, io)>>, TRUE, 0) : io \in IoOutcomes}
    ELSE IF type = "msg"
    THEN LET obj == a.obj
             d == data_or_payload(obj)
         IN IF obj.has_save THEN save_chain(obj, idx, dest_file)
            ELSE IF Truthy(d.buf)
            THEN {IF io = "ok"
                  THEN Item(<<Write(d.what, idx, dest_file, "ok")>>, FALSE, 1)
                  ELSE Item(<<Write(d.what, idx, dest_file, io)>>, TRUE, 0) : io \in IoOutcomes}
            ELSE {Item(<<>>, TRUE, 0)}
    ELSE {IF io = "ok"
          THEN Item(<<Write("payload", idx, dest_file, "ok")>>, FALSE, 1)
          ELSE Item(<<Write("payload", idx, dest_file, io)>>, TRUE, 0) : io \in IoOutcomes}

\* lines 398-401: the "Saved" dialog, or the except clause
save_selected_end(it, idx) ==
    IF it.raised
    THEN it.events \o <<Traceback(idx), Box("showerror", "Error", idx)>>
    ELSE it.events \o <<Box("showinfo", "Saved", idx)>>

\* attach_listbox.curselection(): nothing, or one 0-based row of the list box
Selections == {None} \cup {Some(i) : i \in 0..(attach_listbox - 1)}

save_selected_attachment ==
    /\ ret = None
    /\ \E sel \in Selections :
          IF sel = None
          THEN log' = <<Enter("save_selected_attachment"),
                        Box("showinfo", "Select", 0)>>
          ELSE LET idx == Get(sel)
                   attachments == current_meta.attachments
               IN IF idx >= Len(attachments)
                  THEN log' = <<Enter("save_selected_attachment"),
                                Box("showerror", "Index error", 0)>>
                  ELSE \E dest_file \in SaveAsFiles :
                          IF dest_file = None
                          THEN log' = <<Enter("save_selected_attachment")>>
                          ELSE \E it \in save_selected_item(current_meta.type,
                                            attachments[idx + 1], idx + 1, Get(dest_file)) :
                                  log' = <<Enter("save_selected_attachment")>>
                                         \o save_selected_end(it, idx + 1)
    /\ escaped' = FALSE
    /\ UNCHANGED <<arg, ret, extract_msg, BeautifulSoup, current_path,
                   current_meta, attach_listbox>>

-----------------------------------------------------------------------------
(* save_body_as_txt and open_html_in_browser *)

\* BeautifulSoup(html, "html.parser").get_text(): some text, no text, or the
\* parser rejects the markup and raises
SoupOutcomes == {"t", "", "Exception"}

\* lines 275-280: the set of [raised, body] the conversion allows
body_to_save ==
    IF current_meta.body_text = "" /\ current_meta.body_html # ""
    THEN IF BeautifulSoup
         THEN {[raised |-> o = "Exception", body |-> IF o = "Exception" THEN "" ELSE o] :
                  o \in SoupOutcomes}
         ELSE {[raised |-> FALSE, body |-> "(HTML body present)"]}
    ELSE {[raised |-> FALSE, body |-> current_meta.body_text]}

save_body_as_txt ==
    /\ ret = None
    /\ \E b \in body_to_save :
          IF b.raised
          THEN /\ log' = <<Enter("save_body_as_txt"),
                           Call("BeautifulSoup", 0, None, "Exception")>>
               /\ escaped' = TRUE
          ELSE IF b.body = ""
          THEN /\ log' = <<Enter("save_body_as_txt"), Box("showinfo", "No body", 0)>>
               /\ escaped' = FALSE
          ELSE \E path \in SaveAsFiles :
                  IF path = None
                  THEN /\ log' = <<Enter("save_body_as_txt")>>
                       /\ escaped' = FALSE
                  ELSE \E io \in IoOutcomes :
                          IF io = "ok"
                          THEN /\ log' = <<Enter("save_body_as_txt"),
                                           Write("body", 0, Get(path), "ok"),
                                           Box("showinfo", "Saved", 0)>>
                               /\ escaped' = FALSE
                          ELSE /\ log' = <<Enter("save_body_as_txt"),
                                           Write("body", 0, Get(path), io)>>
                               /\ escaped' = TRUE
    /\ UNCHANGED <<arg, ret, extract_msg, BeautifulSoup, current_path,
                   current_meta, attach_listbox>>

\* the file tempfile.mkstemp(suffix=".html") creates
TmpFile == Join("tmp", <<"h">>)

open_html_in_browser ==
    /\ ret = None
    /\ IF current_meta.body_html = ""
       THEN /\ log' = <<Enter("open_html_in_browser"),
                        Box("showinfo", "No HTML body", 0)>>
            /\ escaped' = FALSE
       ELSE \E io \in IoOutcomes :
               IF io = "ok"
               THEN /\ log' = <<Enter("open_html_in_browser"),
                                Write("body_html", 0, TmpFile, "ok"),
                                Call("webbrowser.open", 0, Some(TmpFile), "ok")>>
                    /\ escaped' = FALSE
               ELSE /\ log' = <<Enter("open_html_in_browser"),
                                Write("body_html", 0, TmpFile, io)>>
                    /\ escaped' = TRUE
    /\ UNCHANGED <<arg, ret, extract_msg, BeautifulSoup, current_path,
                   current_meta, attach_listbox>>

-----------------------------------------------------------------------------
(* open_email *)

\* lines 229-236 of _render_loaded_email: the HTML-to-text conversion of the
\* Body tab runs when there is no plain text and BeautifulSoup is installed,
\* and may raise; nothing else in the method is modelled as failing (the raw
\* read has its own except clause)
_render_loaded_email(meta) ==
    IF meta.body_text = "" /\ meta.body_html # "" /\ BeautifulSoup
    THEN {"ok", "Exception"}
    ELSE {"ok"}

\* lines 203-209
new_meta(r, filetype) ==
    [headers |-> r.headers, body_text |-> r.body_text, body_html |-> r.body_html,
     attachments |-> r.attachments, type |-> filetype]

\* lines 203-211, and 212-214 when rendering raises: the parse returned r
open_email_loaded(path, r, filetype, callee) ==
    /\ current_meta' = new_meta(r, filetype)
    /\ \E rendered \in _render_loaded_email(new_meta(r, filetype)) :
          IF rendered = "ok"
          THEN /\ attach_listbox' = Len(r.attachments)
               /\ log' = <<Enter("open_email"), Call(callee, 0, None, "ok"),
                           Call("_render_loaded_email", 0, None, "ok"),
                           Ev("status", "Loaded", 0, None, "", Len(r.attachments))>>
          ELSE /\ attach_listbox' = attach_listbox
               /\ log' = <<Enter("open_email"), Call(callee, 0, None, "ok"),
                           Call("_render_loaded_email", 0, None, rendered),
                           Traceback(0), Box("showerror", "Error", 0)>>

\* lines 212-214: the parse raised
open_email_failed(r, callee) ==
    /\ log' = <<Enter("open_email"), Call(callee, 0, None, r.exc),
                Traceback(0), Box("showerror", "Error", 0)>>
    /\ UNCHANGED <<current_meta, attach_listbox>>

\* lines 186-214 for the chosen path: path.ext is its lower-cased extension,
\* path.file what the file system holds there
open_email_path(path) ==
    /\ current_path' = Some(path.ext)
    /\ IF path.ext = ".msg"
       THEN IF ~extract_msg
            THEN /\ log' = <<Enter("open_email"),
                             Box("showwarning", "Missing dependency", 0)>>
                 /\ UNCHANGED <<current_meta, attach_listbox>>
            ELSE LET r == parse_msg(path.file) IN
                 IF r.raised THEN open_email_failed(r, "parse_msg")
                 ELSE open_email_loaded(path, r, "msg", "parse_msg")
       ELSE LET r == parse_eml(path.file) IN
            IF r.raised THEN open_email_failed(r, "parse_eml")
            ELSE open_email_loaded(path, r, "eml", "parse_eml")

-----------------------------------------------------------------------------
(* The files the user can open *)

BodyText == [cdis |-> None, ctype |-> "text/plain", filename |-> None, payload |-> "x"]
BodyHtml == [cdis |-> None, ctype |-> "text/html", filename |-> None, payload |-> "x"]
Attached ==
    [cdis |-> Some("attachment"), ctype |-> "application/pdf",
     filename |-> Some(<<"f">>), payload |-> "x"]
InlineNamed ==
    [cdis |-> Some("inline"), ctype |-> "application/pdf",
     filename |-> Some(<<"f", "/">>), payload |-> ""]

FileParts == {BodyHtml, Attached, InlineNamed}

UnreadableEml ==
    [readable |-> FALSE,
     msg |-> [multipart |-> FALSE, headers |-> "H", parts |-> <<RootPart>>]]

OpenableEml(n) ==
    {[readable |-> TRUE,
      msg |-> [multipart |-> TRUE, headers |-> "H", parts |-> ps]] :
        ps \in SeqsUpTo(FileParts, MaxAtt)}
    \cup {[readable |-> TRUE,
           msg |-> [multipart |-> FALSE, headers |-> "H", parts |-> <<BodyText>>]],
          UnreadableEml}

\* an attachment object of the decoder: its name attributes, whether it has a
\* save method, and its data and payload attributes (None when absent)
Buffers == {[data |-> None, payload |-> None],
            [data |-> Some(<<"x">>), payload |-> None],
            [data |-> Some(<<>>), payload |-> Some(<<"x">>)]}

MsgAtts ==
    {[longFilename |-> None, filename |-> Some(<<"f">>), has_save |-> hs,
      data |-> b.data, payload |-> b.payload] : hs \in BOOLEAN, b \in Buffers}
    \ {[longFilename |-> None, filename |-> Some(<<"f">>), has_save |-> TRUE,
         data |-> Some(<<>>), payload |-> Some(<<"x">>)]}

MsgFile(readable, atts) ==
    [readable |-> readable, headers |-> "Hmsg", body |-> "x", htmlBody |-> "",
     attachments |-> atts]

OpenableMsg(n) ==
    {MsgFile(TRUE, atts) : atts \in SeqsUpTo(MsgAtts, MaxAtt)}
    \cup {MsgFile(FALSE, <<>>)}

\* what filedialog.askopenfilename returns: "" on cancel, else a path
OpenPaths ==
    {[ext |-> ".eml", file |-> f] : f \in OpenableEml(MaxAtt)}
    \cup {[ext |-> ".msg", file |-> f] : f \in OpenableMsg(MaxAtt)}
    \cup {[ext |-> ".dat", file |-> f] :
            f \in {UnreadableEml,
                   [readable |-> TRUE,
                    msg |-> [multipart |-> TRUE, headers |-> "H",
                             parts |-> <<BodyHtml, Attached>>]]}}

open_email ==
    /\ ret = None
    /\ \E path \in {None} \cup {Some(q) : q \in OpenPaths} :
          IF path = None
          THEN /\ log' = <<Enter("open_email")>>
               /\ UNCHANGED <<current_path, current_meta, attach_listbox>>
          ELSE open_email_path(Get(path))
    /\ escaped' = FALSE
    /\ UNCHANGED <<arg, ret, extract_msg, BeautifulSoup>>

\* parse_msg called by an importer of the module, no window being opened
call_parse_msg ==
    /\ ret = None
    /\ log = <<>>
    /\ \E f \in OpenableMsg(MaxAtt) :
          /\ arg' = Some(f)
          /\ ret' = Some(parse_msg(f))
    /\ UNCHANGED appvars

Init ==
    /\ arg = None
    /\ ret = None
    /\ extract_msg \in BOOLEAN
    /\ BeautifulSoup \in BOOLEAN
    /\ current_path = None
    /\ current_meta = EmptyMeta
    /\ attach_listbox = 0
    /\ log = <<>>
    /\ escaped = FALSE

Next ==
    \/ open_email
    \/ save_body_as_txt
    \/ open_html_in_browser
    \/ save_selected_attachment
    \/ extract_attachments
    \/ call_parse_msg

Spec == Init /\ [][Next]_vars

-----------------------------------------------------------------------------
(* Properties of the handlers, read off the log of the last handler run *)

LastHandler == IF log = <<>> THEN "" ELSE log[1].what

\* the last handler run was a batch that went through its loop
BatchRan ==
    /\ LastHandler = "extract_attachments"
    /\ log[Len(log)].kind = "status"

\* the last handler run was a "Save Selected" that reached its try statement
SelectedRan ==
    /\ LastHandler = "save_selected_attachment"
    /\ \E k \in 1..Len(log) : log[k].idx > 0

\* the save and write operations on attachment i, in order
OpsOf(i) == SelectSeq(log, LAMBDA e : e.idx = i /\ e.kind \in {"call", "write"})

\* attachment i's save completed without failure: its last operation worked
Completed(i) == OpsOf(i) # <<>> /\ OpsOf(i)[Len(OpsOf(i))].res = "ok"

\* the failure notifications about attachment i
AlertsOf(i) ==
    {k \in 1..Len(log) : log[k].idx = i /\ log[k].kind \in {"showwarning", "showerror"}}

\* the count the batch reported in its "Done" dialog
ReportedSaved == log[Len(log) - 1].n

\* C3: in a "Save All" batch every attachment of the loaded record is attempted
\* exactly once, in list order, whichever earlier ones failed; each attachment
\* that failed is reported by one warning of its own and each one that did not
\* by none; the count reported at the end is the number of attachments whose
\* save completed without failure.
C3_BatchIsolatesFailures ==
    BatchRan =>
        LET n == Len(current_meta.attachments)
            touched == SelectSeq(log, LAMBDA e : e.idx > 0)
        IN /\ {touched[k].idx : k \in 1..Len(touched)} = 1..n
           /\ \A k \in 1..(Len(touched) - 1) : touched[k].idx <= touched[k + 1].idx
           /\ \A i \in 1..n :
                 /\ Cardinality(AlertsOf(i)) = (IF Completed(i) THEN 0 ELSE 1)
                 /\ Cardinality({k \in 1..Len(log) :
                                   log[k].idx = i /\ log[k].res = "ok"}) <= 1
           /\ log[Len(log) - 1].kind = "showinfo" /\ log[Len(log) - 1].what = "Done"
           /\ ReportedSaved = Cardinality({i \in 1..n : Completed(i)})
           /\ log[Len(log)].n = ReportedSaved

\* a batch of two attachments whose first failed and whose second was saved
C3_Witness ==
    /\ BatchRan
    /\ Len(current_meta.attachments) = 2
    /\ ~Completed(1) /\ OpsOf(1) # <<>>
    /\ Completed(2)
    /\ ReportedSaved = 1

\* the destination the handler gives the operations on attachment i
C8_Destination(i) ==
    IF LastHandler = "extract_attachments"
    THEN Some(Join("d", _sanitize_filename(current_meta.attachments[i].filename)))
    ELSE Some(UserFile)

\* the order of the operations on the .msg attachment i
C8_Order(i) ==
    LET obj == current_meta.attachments[i].obj
        ops == OpsOf(i)
        buffered == (obj.data \notin {None, Some(<<>>)}) \/ (obj.payload \notin {None, Some(<<>>)})
        source == IF obj.data \notin {None, Some(<<>>)} THEN "data" ELSE "payload"
    IN /\ \A k \in 1..Len(ops) : ops[k].path = C8_Destination(i)
       /\ obj.has_save =>
             /\ ops # <<>>
             /\ ops[1].kind = "call" /\ ops[1].what = "save(customPath)"
             /\ (ops[1].res = "TypeError") <=>
                   (Len(ops) >= 2 /\ ops[2].kind = "call" /\ ops[2].what = "save(path)")
             /\ ops[1].res # "TypeError" => Len(ops) = 1
             /\ \A k \in 1..Len(ops) :
                   /\ ops[k].what = "save(customPath)" => k = 1
                   /\ ops[k].what = "save(path)" => k = 2
                   /\ ops[k].kind = "write" =>
                         k = 3 /\ ops[2].res # "ok" /\ buffered /\ ops[k].what = source
       /\ ~obj.has_save =>
             IF buffered
             THEN Len(ops) = 1 /\ ops[1].kind = "write" /\ ops[1].what = source
             ELSE ops = <<>>
       /\ ~Completed(i) =>
             /\ AlertsOf(i) # {}
             /\ ~\E k \in 1..Len(log) :
                    log[k].idx = i /\ log[k].kind = "showinfo" /\ log[k].what = "Saved"

\* C8: saving a .msg attachment, in "Save Selected" and in "Save All": a handle
\* with a save method has it called first with the destination, and only a
\* TypeError of that call leads to the call in the simplified form; a handle
\* without one has its data buffer, else its payload buffer, written; an
\* attachment no path saved is signalled and neither reported nor counted as
\* saved.
C8_MsgSaveFallbackOrder ==
    (current_meta.type = "msg" /\ (BatchRan \/ SelectedRan)) =>
        /\ \A i \in 1..Len(current_meta.attachments) :
              (\E k \in 1..Len(log) : log[k].idx = i) => C8_Order(i)
        /\ BatchRan =>
              ReportedSaved = Cardinality({i \in 1..Len(current_meta.attachments) :
                                             Completed(i)})

\* "Save All" on a .msg record: the first handle took the simplified call after
\* a TypeError, the second has neither a save method nor a buffer
C8_Witness ==
    /\ current_meta.type = "msg"
    /\ BatchRan
    /\ Len(current_meta.attachments) = 2
    /\ current_meta.attachments[1].obj.has_save
    /\ Len(OpsOf(1)) = 2 /\ OpsOf(1)[1].res = "TypeError" /\ OpsOf(1)[2].res = "ok"
    /\ ~current_meta.attachments[2].obj.has_save
    /\ OpsOf(2) = <<>>
    /\ ReportedSaved = 1

\* the files the batch created or overwrote
C10_FilesWritten ==
    {log[k].path : k \in {j \in 1..Len(log) : log[j].idx > 0 /\ log[j].res = "ok"}}

\* C10: when all N attachments of a batch save without failure, the batch has
\* written N distinct files: the count it reports is the number of files it
\* left in the folder.
C10_BatchNeverOverwritesItsOwnFiles ==
    (BatchRan /\ \A i \in 1..Len(current_meta.attachments) : Completed(i)) =>
        Cardinality(C10_FilesWritten) = ReportedSaved

\* the step is an open_email on a .msg path while the decoder is missing
C5_OpenMsgWithoutDecoder ==
    /\ ~extract_msg
    /\ log' # <<>> /\ log'[1].what = "open_email" /\ Len(log') > 1
    /\ current_path' = Some(".msg")

\* C5: without the decoder, parse_msg raises before it reads anything and
\* returns no tuple, and open_email on a .msg path warns the user, calls no
\* parser and leaves current_meta as it was.
C5_NoDecoderNoRecord ==
    [][/\ (~extract_msg' /\ ret' # None) =>
             /\ Get(ret').raised
             /\ Get(ret').exc = "RuntimeError"
       /\ C5_OpenMsgWithoutDecoder =>
             /\ current_meta' = current_meta
             /\ attach_listbox' = attach_listbox
             /\ \E k \in 1..Len(log') : log'[k].kind = "showwarning"
             /\ \A k \in 1..Len(log') : log'[k].kind \notin {"call", "traceback", "showerror"}
             /\ ~escaped'
      ]_vars

\* a .msg path was opened without the decoder while an .eml record with an
\* attachment was loaded: the user was warned and the record is still there
C5_Witness ==
    /\ ~extract_msg
    /\ current_path = Some(".msg")
    /\ LastHandler = "open_email"
    /\ Len(log) = 2 /\ log[2].kind = "showwarning" /\ log[2].what = "Missing dependency"
    /\ current_meta.type = "eml"
    /\ current_meta.attachments # <<>>

\* C6: no failure raised while a user action runs escapes its handler, and
\* every failure that ended an operation of the action is followed by a
\* notification to the user.
C6_FailuresCaughtAndShown ==
    /\ ~escaped
    /\ \A k \in 1..Len(log) :
          (/\ log[k].kind \in {"call", "write"}
           /\ log[k].res # "ok"
           /\ ~\E j \in (k + 1)..Len(log) :
                  log[j].idx = log[k].idx /\ log[j].kind \in {"call", "write"})
          => \E j \in (k + 1)..Len(log) : log[j].kind \in {"showwarning", "showerror"}

\* the step ended an open_email that parsed and rendered a file
C9_SuccessfulOpen ==
    /\ log' # <<>> /\ log'[1].what = "open_email"
    /\ log'[Len(log')].kind = "status" /\ log'[Len(log')].what = "Loaded"

\* C9: current_meta changes only in a successful open_email; a cancelled or
\* failed open and every other action leave it unchanged.
C9_MetaChangesOnlyInSuccessfulOpen ==
    [][current_meta' # current_meta => C9_SuccessfulOpen]_vars

-----------------------------------------------------------------------------
(* Specification of the sanitizer alone: any name, then one call *)

InitSanitize ==
    /\ arg \in Names(MaxNameLen)
    /\ ret = None
    /\ AppIdle

Sanitize ==
    /\ ret = None
    /\ ret' = Some(_sanitize_filename(arg))
    /\ UNCHANGED <<arg, appvars>>

NextSanitize == Sanitize

SpecSanitize == InitSanitize /\ [][NextSanitize]_vars

\* the name with the nine characters removed, as C4 describes the result
C4_Kept == SelectSeq(arg, LAMBDA c : c \notin {"\\", "/", ":", "*", "?", "\"", "<", ">", "|"})

\* C4 (as stated): the result is the name with the nine characters removed and
\* every other character kept, or "attachment" when that is the empty string.
C4_SanitizeKeepsAllOtherChars ==
    ret # None =>
        Get(ret) = (IF C4_Kept = <<>> THEN STR_attachment ELSE C4_Kept)

\* s is t without its leading and trailing whitespace
C4_IsStripOf(s, t) ==
    \/ /\ s = <<>>
       /\ \A i \in 1..Len(t) : t[i] \in Whitespace
    \/ \E i, j \in 1..Len(t) :
          /\ i <= j
          /\ s = SubSeq(t, i, j)
          /\ t[i] \notin Whitespace
          /\ t[j] \notin Whitespace
          /\ \A k \in 1..(i - 1) : t[k] \in Whitespace
          /\ \A k \in (j + 1)..Len(t) : t[k] \in Whitespace

\* C4 (amended): the result is the name with the nine characters removed and
\* then leading and trailing whitespace stripped, every other character kept in
\* order, or "attachment" when that is the empty string; the result never
\* contains any of the nine characters and is never empty.
C4_SanitizeStripsThenDefaults ==
    ret # None =>
        /\ \/ C4_IsStripOf(Get(ret), C4_Kept) /\ Get(ret) # <<>>
           \/ C4_IsStripOf(<<>>, C4_Kept) /\ Get(ret) = STR_attachment
        /\ Get(ret) # <<>>
        /\ \A i \in 1..Len(Get(ret)) : Get(ret)[i] \notin IllegalChars

\* a name with an illegal character between two legal ones has been sanitized
\* to the two legal ones
C4_Witness ==
    /\ ret # None
    /\ Len(arg) = 3
    /\ arg[1] = "a" /\ arg[2] \in IllegalChars /\ arg[3] = "b"
    /\ Get(ret) = <<"a", "b">>

-----------------------------------------------------------------------------
(* Specification of parse_eml alone: any message file, then one call *)

Dispositions == {None, Some("inline"), Some("attachment")}
ContentTypes == {"text/plain", "text/html", "application/pdf"}
Filenames == {None, Some(<<>>), Some(<<"f">>)}
Payloads == {"", "x", UNDECODABLE}

Parts == [cdis : Dispositions, ctype : ContentTypes, filename : Filenames,
          payload : Payloads]

\* the messages of at most n parts
Messages(n) ==
    {[multipart |-> TRUE, headers |-> "H", parts |-> ps] :
        ps \in SeqsUpTo(Parts, n)}
    \cup {[multipart |-> FALSE, headers |-> "H", parts |-> <<p>>] : p \in Parts}

EmlFiles(n) ==
    {[readable |-> TRUE, msg |-> m] : m \in Messages(n)}
    \cup {[readable |-> FALSE,
           msg |-> [multipart |-> FALSE, headers |-> "H", parts |-> <<RootPart>>]]}

InitParse ==
    /\ arg \in EmlFiles(MaxParts)
    /\ ret = None
    /\ AppIdle

ParseEml ==
    /\ ret = None
    /\ ret' = Some(parse_eml(arg))
    /\ UNCHANGED <<arg, appvars>>

NextParse == ParseEml

SpecParse == InitParse /\ [][NextParse]_vars

\* the parse of a readable multipart message has returned
ParsedMultipart == ret # None /\ arg.readable /\ arg.msg.multipart

\* C1's reading of a part: its disposition is "attachment" or it carries a
\* non-empty filename
C1_IsAttachmentPart(p) ==
    \/ p.cdis = Some("attachment")
    \/ p.filename \notin {None, Some(<<>>)}

C1_Visited == walk(arg.msg)

C1_AttachmentParts == SelectSeq(C1_Visited, C1_IsAttachmentPart)

C1_BodyParts == SelectSeq(arg.msg.parts, LAMBDA p : ~C1_IsAttachmentPart(p))

\* C1: in parse_eml on a multipart message the attachments are exactly the
\* visited parts whose disposition is "attachment" or that carry a non-empty
\* filename, in walk order, each recorded under its filename ("attachment" when
\* it has none) with its content type and payload; such a part is never a body:
\* the bodies are those of the message without these parts.
C1_AttachmentIffDispositionOrFilename ==
    ParsedMultipart =>
        LET r == Get(ret) IN
        /\ ~r.raised
        /\ Len(r.attachments) = Len(C1_AttachmentParts)
        /\ \A i \in 1..Len(C1_AttachmentParts) :
              LET p == C1_AttachmentParts[i] IN
              /\ r.attachments[i].filename =
                    (IF p.filename \in {None, Some(<<>>)} THEN STR_attachment
                     ELSE Get(p.filename))
              /\ r.attachments[i].content_type = p.ctype
              /\ r.attachments[i].payload = p.payload
        /\ LET q == parse_eml([arg EXCEPT !.msg.parts = C1_BodyParts])
           IN r.body_text = q.body_text /\ r.body_html = q.body_html

\* an inline text part with a filename, standing before a plain body part, was
\* recorded as the only attachment and the later part became body_text
C1_Witness ==
    /\ ParsedMultipart
    /\ Len(arg.msg.parts) = 2
    /\ arg.msg.parts[1] = [cdis |-> Some("inline"), ctype |-> "text/plain",
                           filename |-> Some(<<"f">>), payload |-> "x"]
    /\ arg.msg.parts[2].cdis = None /\ arg.msg.parts[2].filename = None
    /\ arg.msg.parts[2].ctype = "text/plain" /\ arg.msg.parts[2].payload = UNDECODABLE
    /\ Len(Get(ret).attachments) = 1
    /\ Get(ret).attachments[1].filename = <<"f">>
    /\ Get(ret).body_text = REPLACED

\* the text of a part: its content, decoded with replacement when need be
C2_Text(p) == IF p.payload = UNDECODABLE THEN REPLACED ELSE p.payload

C2_FirstOf(ctype) ==
    LET same == SelectSeq(C1_BodyParts, LAMBDA p : p.ctype = ctype)
    IN IF same = <<>> THEN "" ELSE C2_Text(same[1])

\* C2: in parse_eml on a multipart message body_text is the content of the
\* first non-attachment text/plain part and body_html that of the first
\* non-attachment text/html part, whatever that content is; later parts of the
\* same type are discarded.
C2_BodiesAreFirstParts ==
    ParsedMultipart =>
        /\ Get(ret).body_text = C2_FirstOf("text/plain")
        /\ Get(ret).body_html = C2_FirstOf("text/html")

\* C7: a content-decoding failure on a body part never aborts parse_eml: for a
\* readable file, multipart or not, the parse returns a record.
C7_DecodingFailureNeverAborts ==
    (ret # None /\ arg.readable) => ~Get(ret).raised

====
